---- MODULE Spec2Model ----
(***************************************************************************)
(* Model of the voice-input pipeline of the chat client:                   *)
(*   ChatInterface (startRecording / stopRecording / mediaRecorder.onstop  *)
(*   / resampleAudio / bufferToWav / toggleRecording), transcribeAudio of   *)
(*   services/api.ts and the panel switching of App that mounts and        *)
(*   unmounts ChatInterface.                                               *)
(* One JavaScript task (everything between two awaits / events) is one     *)
(* action.                                                                 *)
(***************************************************************************)
EXTENDS Integers, Sequences, FiniteSets, TLC

\* ---------------------------------------------------------------- bounds
MaxCycles == 2      \* startRecording invocations explored
MaxMounts == 2      \* ChatInterface instances explored
MaxChunks == 2      \* non-empty chunks per recorder explored

MaxChannels == 2    \* channels of an AudioBuffer explored
MaxSamples == 3     \* samples per channel of an AudioBuffer explored
MaxFrames == 12     \* frames of a decoded AudioBuffer explored

MaxClock == 2       \* values of Date.now() explored
MaxChats == 2       \* chats in chatHistory explored
MaxSends == 2       \* handleSend invocations explored
MaxChanges == 3     \* handleSettingsChange invocations explored

Transcripts == {"t1"}          \* transcript strings the server may return
Texts == {"", "typed"}         \* values the user may type into the field
\* response bodies: JSON with a transcript field, or text that is not JSON
Bodies == Transcripts \cup {"badjson"}

VARIABLES
  showSettings,      \* App: useState(false)
  showUpload,        \* App: useState(false)
  mounted,           \* a ChatInterface instance is mounted (Slide unmountOnExit)
  inst,              \* number of the ChatInterface instance mounted last
  voiceState,        \* ChatInterface: useState<VoiceRecordingState>
  isTranscribing,    \* ChatInterface: useState(false)
  inputText,         \* ChatInterface: useState('')
  mediaRecorderRef,  \* per instance: useRef<MediaRecorder | null>, 0 = null
  audioChunksRef,    \* per instance: useRef<Blob[]>
  cycles,            \* one record per startRecording invocation
  nRequests,         \* POST /transcribe requests sent so far
  wavIn,             \* the AudioBuffer handed to bufferToWav
  wavOut,            \* the bytes bufferToWav returned
  rsIn,              \* resampleAudio: the AudioBuffer decodeAudioData returned
  rsOut,             \* resampleAudio: the OfflineAudioContext it constructed
  chatHistory,       \* App: useState<ChatHistoryItem[]>([])
  activeChatId,      \* App: useState<string | null>(null), 0 = null
  initializedRef,    \* App: useRef(false)
  now,               \* the value Date.now() returns
  nSends,            \* handleSend invocations so far; the n-th sends text n
  sendPending,       \* sendMessage requests in flight, each with the
                     \* activeChatId its onSendMessage closure holds
  clearPending,      \* clearHistory requests in flight, by the activeChatId
                     \* the handleClearHistory closure holds
  settings,          \* App: useState<ChatSettings>(defaultSettings)
  serverSettings,    \* the settings the server accepted last
  nChanges,          \* handleSettingsChange invocations so far
  settingsPending,   \* updateSettings requests in flight, with their bodies
  nFailed            \* updateSettings requests that threw

vars == <<showSettings, showUpload, mounted, inst, voiceState, isTranscribing,
          inputText, mediaRecorderRef, audioChunksRef, cycles, nRequests,
          wavIn, wavOut, rsIn, rsOut, chatHistory, activeChatId,
          initializedRef, now, nSends, sendPending, clearPending,
          settings, serverSettings, nChanges, settingsPending, nFailed>>

appVars == <<showSettings, showUpload, mounted, inst>>
wavVars == <<wavIn, wavOut>>
rsVars == <<rsIn, rsOut>>
\* the variables the voice pipeline and the panels never touch
histVars == <<chatHistory, activeChatId, initializedRef, now, nSends,
              sendPending, clearPending>>
setVars == <<settings, serverSettings, nChanges, settingsPending, nFailed>>
restVars == <<rsVars, histVars, setVars>>
voiceVars == <<voiceState, isTranscribing, inputText, mediaRecorderRef,
               audioChunksRef, cycles, nRequests>>

Insts == 1..MaxMounts

\* VoiceRecordingState values the code assigns
VoiceIdle == [isRecording |-> FALSE, error |-> "null"]
VoiceRecording == [isRecording |-> TRUE, error |-> "null"]
VoiceStartError == [isRecording |-> FALSE, error |-> "Error starting recording"]
VoiceProcessError == [isRecording |-> FALSE, error |-> "Error processing audio"]

\* the stages of onstop in which the cycle is between two awaits
PipelineStages == {"reading", "decoding", "rendering", "fetching", "json"}
\* the ways a cycle ends: "denied" getUserMedia rejected, "startfail" the
\* recorder could not be created or started, "failedResample" resampleAudio
\* rejected, "failedTranscribe" transcribeAudio threw, "done" success
ErrorEnds == {"denied", "startfail", "failedResample", "failedTranscribe"}
StoppedEnds == {"failedResample", "failedTranscribe", "done"}

NewCycle(i) ==
  [inst |-> i,            \* the ChatInterface instance whose closure this is
   pc |-> "perm",         \* awaiting getUserMedia
   stream |-> "none",     \* "none" | "live" | "stopped" (all tracks stopped)
   recorder |-> "none",   \* "none" | "inactive" | "recording"
   blob |-> <<>>,         \* the Blob formed by onstop, while the cycle uses it
   nResample |-> 0,       \* calls of resampleAudio
   nEncode |-> 0,         \* calls of bufferToWav
   nTranscribe |-> 0,     \* calls of transcribeAudio
   body |-> "none"]       \* the body of the response, while it is being read

Cycles == 1..Len(cycles)
CycleIds == 1..MaxCycles

\* A setState call of a closure takes effect only on a mounted instance
Live(c) == mounted /\ cycles[c].inst = inst

\* the chunks of recorder c in a chunk array
ChunksOf(seq, c) == SelectSeq(seq, LAMBDA ch : ch.cyc = c)

\* no AudioBuffer has been handed to bufferToWav
NoAudio == [numberOfChannels |-> 0, length |-> 0, sampleRate |-> 0,
            channels |-> <<>>]

\* nothing has been decoded
NoSource == [numberOfChannels |-> 0, length |-> 0, sampleRate |-> 0]
\* no OfflineAudioContext has been constructed
NoRender == [threw |-> FALSE, numberOfChannels |-> 0, length |-> 0,
             sampleRate |-> 0]

\* the variables of restVars before anything happened
\* App before its first effect has run
HistIdle ==
  /\ chatHistory = <<>>
  /\ activeChatId = 0
  /\ initializedRef = FALSE
  /\ now = 1
  /\ nSends = 0
  /\ sendPending = {}
  /\ clearPending = {}

\* temperature in tenths
defaultSettings ==
  [llmModel |-> "llama-3.1-8b-instant", asrModel |-> "conformer",
   temperature |-> 3]
\* no POST /settings has been accepted yet
NoSettings == [llmModel |-> "", asrModel |-> "", temperature |-> 0]

SettingsIdle ==
  /\ settings = defaultSettings
  /\ serverSettings = NoSettings
  /\ nChanges = 0
  /\ settingsPending = {}
  /\ nFailed = 0

RestIdle ==
  /\ rsIn = NoSource
  /\ rsOut = NoRender
  /\ HistIdle
  /\ SettingsIdle
  /\ SettingsIdle

Init ==
  /\ showSettings = FALSE
  /\ showUpload = FALSE
  /\ mounted = TRUE
  /\ inst = 1
  /\ voiceState = VoiceIdle
  /\ isTranscribing = FALSE
  /\ inputText = ""
  /\ mediaRecorderRef = [i \in Insts |-> 0]
  /\ audioChunksRef = [i \in Insts |-> <<>>]
  /\ cycles = <<>>
  /\ nRequests = 0
  /\ wavIn = NoAudio
  /\ wavOut = <<>>
  /\ RestIdle

\* ------------------------------------------------------------ ChatInterface

\* startRecording up to its first await (getUserMedia)
startRecording ==
  /\ Len(cycles) < MaxCycles
  /\ voiceState' = VoiceRecording
  /\ cycles' = Append(cycles, NewCycle(inst))
  /\ UNCHANGED <<wavVars, restVars, appVars, isTranscribing, inputText, mediaRecorderRef,
                 audioChunksRef, nRequests>>

\* stopRecording: stops the recorder of mediaRecorderRef.current if it is
\* not inactive; the dataavailable and stop events are delivered later
stopRecording ==
  LET r == mediaRecorderRef[inst] IN
  /\ IF r # 0 /\ cycles[r].recorder # "inactive"
       THEN cycles' = [cycles EXCEPT ![r].recorder = "inactive",
                                     ![r].pc = "stopping"]
       ELSE cycles' = cycles
  /\ UNCHANGED <<wavVars, restVars, appVars, voiceState, isTranscribing, inputText,
                 mediaRecorderRef, audioChunksRef, nRequests>>

micButtonAlwaysEnabled == mounted
\* the mic IconButton is rendered and not disabled: disabled={isTranscribing}
micButtonEnabled == mounted /\ ~isTranscribing

toggleRecordingAlwaysStarts == startRecording
\* toggleRecording, the onClick of the mic IconButton
toggleRecording ==
  IF voiceState.isRecording THEN stopRecording ELSE startRecording

micButtonClick == micButtonEnabled /\ toggleRecording

startCatchSwallows(c) == voiceState
\* the state the catch block of startRecording sets
startCatchState(c) == IF Live(c) THEN VoiceStartError ELSE voiceState

\* getUserMedia rejects: the catch block of startRecording
PermissionDenied(c) ==
  /\ c \in Cycles
  /\ cycles[c].pc = "perm"
  /\ cycles' = [cycles EXCEPT ![c].pc = "denied"]
  /\ voiceState' = startCatchState(c)
  /\ UNCHANGED <<wavVars, restVars, appVars, isTranscribing, inputText, mediaRecorderRef,
                 audioChunksRef, nRequests>>

chunksKeptAtStart(ref, i) == ref
\* audioChunksRef.current = []
chunksResetAtStart(ref, i) == [ref EXCEPT ![i] = <<>>]

\* getUserMedia resolves: the rest of startRecording.
\*   how = "ok"          the recorder is created and started
\*   how = "ctorThrows"  new MediaRecorder(stream) throws
\*   how = "startThrows" mediaRecorder.start() throws
PermissionGranted(c, how) ==
  LET i == cycles[c].inst IN
  /\ c \in Cycles
  /\ cycles[c].pc = "perm"
  /\ how \in {"ok", "ctorThrows", "startThrows"}
  /\ cycles' = [cycles EXCEPT
       ![c].stream = "live",
       ![c].recorder = CASE how = "ok" -> "recording"
                         [] how = "startThrows" -> "inactive"
                         [] OTHER -> "none",
       ![c].pc = IF how = "ok" THEN "recording" ELSE "startfail"]
  /\ mediaRecorderRef' = IF how = "ctorThrows" THEN mediaRecorderRef
                         ELSE [mediaRecorderRef EXCEPT ![i] = c]
  /\ audioChunksRef' = IF how = "ctorThrows" THEN audioChunksRef
                       ELSE chunksResetAtStart(audioChunksRef, i)
  /\ voiceState' = IF how = "ok" THEN voiceState ELSE startCatchState(c)
  /\ UNCHANGED <<wavVars, restVars, appVars, isTranscribing, inputText, nRequests>>

ondataavailablePrepends(c, size) ==
  LET i == cycles[c].inst
      k == Len(ChunksOf(audioChunksRef[i], c)) + 1 IN
  /\ c \in Cycles
  /\ cycles[c].pc = "stopping"
  /\ k <= MaxChunks
  /\ size \in {0, 1}
  /\ audioChunksRef' =
       IF size > 0
         THEN [audioChunksRef EXCEPT ![i] = <<[cyc |-> c, k |-> k]>> \o @]
         ELSE audioChunksRef
  /\ UNCHANGED <<wavVars, restVars, appVars, voiceState, isTranscribing, inputText,
                 mediaRecorderRef, cycles, nRequests>>

\* mediaRecorder.ondataavailable: a chunk of size > 0 is pushed, an empty
\* one is dropped.  Chunks are numbered in the order the recorder emits them.
\* start() is called without a timeslice, so the recorder delivers its data
\* after stop() and before the stop event.
ondataavailable(c, size) ==
  LET i == cycles[c].inst
      k == Len(ChunksOf(audioChunksRef[i], c)) + 1 IN
  /\ c \in Cycles
  /\ cycles[c].pc = "stopping"
  /\ k <= MaxChunks
  /\ size \in {0, 1}
  /\ audioChunksRef' =
       IF size > 0
         THEN [audioChunksRef EXCEPT ![i] = Append(@, [cyc |-> c, k |-> k])]
         ELSE audioChunksRef
  /\ UNCHANGED <<wavVars, restVars, appVars, voiceState, isTranscribing, inputText,
                 mediaRecorderRef, cycles, nRequests>>

onstopKeepsRecordingFlag(c) ==
  /\ c \in Cycles
  /\ cycles[c].pc = "stopping"
  /\ isTranscribing' = IF Live(c) THEN TRUE ELSE isTranscribing
  /\ cycles' = [cycles EXCEPT ![c].blob = audioChunksRef[cycles[c].inst],
                              ![c].nResample = @ + 1,
                              ![c].pc = "reading"]
  /\ UNCHANGED <<wavVars, restVars, appVars, voiceState, inputText,
                 mediaRecorderRef, audioChunksRef, nRequests>>

onstopSendsAtOnce(c) ==
  /\ c \in Cycles
  /\ cycles[c].pc = "stopping"
  /\ voiceState' = IF Live(c) THEN VoiceIdle ELSE voiceState
  /\ isTranscribing' = IF Live(c) THEN TRUE ELSE isTranscribing
  /\ cycles' = [cycles EXCEPT ![c].blob = audioChunksRef[cycles[c].inst],
                              ![c].nTranscribe = @ + 1,
                              ![c].pc = "fetching"]
  /\ nRequests' = nRequests + 1
  /\ UNCHANGED <<wavVars, restVars, appVars, inputText, mediaRecorderRef, audioChunksRef>>

\* mediaRecorder.onstop up to its first await: the flags, the Blob, and the
\* call of resampleAudio, which starts the FileReader
onstop(c) ==
  /\ c \in Cycles
  /\ cycles[c].pc = "stopping"
  /\ voiceState' = IF Live(c) THEN VoiceIdle ELSE voiceState
  /\ isTranscribing' = IF Live(c) THEN TRUE ELSE isTranscribing
  /\ cycles' = [cycles EXCEPT ![c].blob = audioChunksRef[cycles[c].inst],
                              ![c].nResample = @ + 1,
                              ![c].pc = "reading"]
  /\ UNCHANGED <<wavVars, restVars, appVars, inputText, mediaRecorderRef, audioChunksRef,
                 nRequests>>

onstopCatchLeavesTracks(c, end) ==
  /\ voiceState' = IF Live(c) THEN VoiceProcessError ELSE voiceState
  /\ isTranscribing' = IF Live(c) THEN FALSE ELSE isTranscribing
  /\ cycles' = [cycles EXCEPT ![c].pc = end, ![c].blob = <<>>, ![c].body = "none"]
  /\ UNCHANGED <<wavVars, restVars, appVars, inputText, mediaRecorderRef, audioChunksRef,
                 nRequests>>

onstopCatchClearsInput(c, end) ==
  /\ voiceState' = IF Live(c) THEN VoiceProcessError ELSE voiceState
  /\ isTranscribing' = IF Live(c) THEN FALSE ELSE isTranscribing
  /\ inputText' = IF Live(c) THEN "" ELSE inputText
  /\ cycles' = [cycles EXCEPT ![c].pc = end, ![c].stream = "stopped",
                              ![c].blob = <<>>, ![c].body = "none"]
  /\ UNCHANGED <<wavVars, restVars, appVars, mediaRecorderRef, audioChunksRef, nRequests>>

\* the catch and finally blocks of onstop and the statement after them,
\* which stops the tracks of the stream
onstopCatch(c, end) ==
  /\ voiceState' = IF Live(c) THEN VoiceProcessError ELSE voiceState
  /\ isTranscribing' = IF Live(c) THEN FALSE ELSE isTranscribing
  /\ cycles' = [cycles EXCEPT ![c].pc = end, ![c].stream = "stopped",
                              ![c].blob = <<>>, ![c].body = "none"]
  /\ UNCHANGED <<wavVars, restVars, appVars, inputText, mediaRecorderRef, audioChunksRef,
                 nRequests>>

\* resampleAudio: fileReader.onload / fileReader.onerror
fileReaderDone(c, ok) ==
  /\ c \in Cycles
  /\ cycles[c].pc = "reading"
  /\ ok \in BOOLEAN
  /\ IF ok
       THEN /\ cycles' = [cycles EXCEPT ![c].pc = "decoding"]
            /\ UNCHANGED <<wavVars, restVars, appVars, voiceState, isTranscribing, inputText,
                           mediaRecorderRef, audioChunksRef, nRequests>>
       ELSE onstopCatch(c, "failedResample")

decodeDoneHangsOnEmpty(c, how) ==
  /\ c \in Cycles
  /\ cycles[c].pc = "decoding"
  /\ how \in {"ok", "decodeRejects", "offlineCtxThrows"}
  /\ cycles[c].blob # <<>>
  /\ IF how = "ok"
       THEN /\ cycles' = [cycles EXCEPT ![c].pc = "rendering"]
            /\ UNCHANGED <<wavVars, restVars, appVars, voiceState, isTranscribing, inputText,
                           mediaRecorderRef, audioChunksRef, nRequests>>
       ELSE onstopCatch(c, "failedResample")

decodeDoneFallsBack(c, how) ==
  /\ c \in Cycles
  /\ cycles[c].pc = "decoding"
  /\ how \in {"ok", "decodeRejects", "offlineCtxThrows"}
  /\ cycles[c].blob = <<>> => how = "decodeRejects"
  /\ IF how = "ok"
       THEN /\ cycles' = [cycles EXCEPT ![c].pc = "rendering"]
            /\ UNCHANGED <<wavVars, restVars, appVars, voiceState, isTranscribing, inputText,
                           mediaRecorderRef, audioChunksRef, nRequests>>
       ELSE /\ cycles' = [cycles EXCEPT ![c].pc = "fetching",
                                        ![c].nTranscribe = @ + 1]
            /\ nRequests' = nRequests + 1
            /\ UNCHANGED <<wavVars, restVars, appVars, voiceState, isTranscribing, inputText,
                           mediaRecorderRef, audioChunksRef>>

\* resampleAudio: decodeAudioData settles; on success the OfflineAudioContext
\* is constructed and startRendering is called.  An empty blob never decodes.
decodeDone(c, how) ==
  /\ c \in Cycles
  /\ cycles[c].pc = "decoding"
  /\ how \in {"ok", "decodeRejects", "offlineCtxThrows"}
  /\ cycles[c].blob = <<>> => how = "decodeRejects"
  /\ IF how = "ok"
       THEN /\ cycles' = [cycles EXCEPT ![c].pc = "rendering"]
            /\ UNCHANGED <<wavVars, restVars, appVars, voiceState, isTranscribing, inputText,
                           mediaRecorderRef, audioChunksRef, nRequests>>
       ELSE onstopCatch(c, "failedResample")

\* resampleAudio: startRendering settles; on success bufferToWav runs, the
\* promise resolves and onstop calls transcribeAudio, which sends the request
renderDone(c, ok) ==
  /\ c \in Cycles
  /\ cycles[c].pc = "rendering"
  /\ ok \in BOOLEAN
  /\ IF ok
       THEN /\ cycles' = [cycles EXCEPT ![c].pc = "fetching",
                                        ![c].nEncode = @ + 1,
                                        ![c].nTranscribe = @ + 1]
            /\ nRequests' = nRequests + 1
            /\ UNCHANGED <<wavVars, restVars, appVars, voiceState, isTranscribing, inputText,
                           mediaRecorderRef, audioChunksRef>>
       ELSE onstopCatch(c, "failedResample")

fetchDoneRetries(c, res, body) ==
  /\ c \in Cycles
  /\ cycles[c].pc = "fetching"
  /\ res \in {"ok", "non2xx", "reject"}
  /\ body \in Bodies
  /\ IF res = "ok"
       THEN /\ cycles' = [cycles EXCEPT ![c].pc = "json", ![c].body = body]
            /\ UNCHANGED <<wavVars, restVars, appVars, voiceState, isTranscribing, inputText,
                           mediaRecorderRef, audioChunksRef, nRequests>>
       ELSE IF cycles[c].nTranscribe < 2
         THEN /\ cycles' = [cycles EXCEPT ![c].nTranscribe = @ + 1]
              /\ nRequests' = nRequests + 1
              /\ UNCHANGED <<wavVars, restVars, appVars, voiceState, isTranscribing,
                             inputText, mediaRecorderRef, audioChunksRef>>
         ELSE onstopCatch(c, "failedTranscribe")

fetchDoneIgnoresStatus(c, res, body) ==
  /\ c \in Cycles
  /\ cycles[c].pc = "fetching"
  /\ res \in {"ok", "non2xx", "reject"}
  /\ body \in Bodies
  /\ IF res # "reject"
       THEN /\ cycles' = [cycles EXCEPT ![c].pc = "json", ![c].body = body]
            /\ UNCHANGED <<wavVars, restVars, appVars, voiceState, isTranscribing, inputText,
                           mediaRecorderRef, audioChunksRef, nRequests>>
       ELSE onstopCatch(c, "failedTranscribe")

\* transcribeAudio: fetch settles
\*   res = "ok" a 2xx response, "non2xx" any other response, "reject" no response
\*   body: what the response carries
fetchDone(c, res, body) ==
  /\ c \in Cycles
  /\ cycles[c].pc = "fetching"
  /\ res \in {"ok", "non2xx", "reject"}
  /\ body \in Bodies
  /\ IF res = "ok"
       THEN /\ cycles' = [cycles EXCEPT ![c].pc = "json", ![c].body = body]
            /\ UNCHANGED <<wavVars, restVars, appVars, voiceState, isTranscribing, inputText,
                           mediaRecorderRef, audioChunksRef, nRequests>>
       ELSE onstopCatch(c, "failedTranscribe")

\* transcribeAudio: response.json() settles and data.transcript is returned;
\* onstop then sets the field, clears the flag and stops the tracks
jsonDone(c) ==
  LET transcript == cycles[c].body IN
  /\ c \in Cycles
  /\ cycles[c].pc = "json"
  /\ IF transcript \in Transcripts
       THEN /\ inputText' = IF Live(c) THEN transcript ELSE inputText
            /\ isTranscribing' = IF Live(c) THEN FALSE ELSE isTranscribing
            /\ cycles' = [cycles EXCEPT ![c].pc = "done",
                                        ![c].stream = "stopped",
                                        ![c].blob = <<>>,
                                        ![c].body = "none"]
            /\ UNCHANGED <<wavVars, restVars, appVars, voiceState, mediaRecorderRef,
                           audioChunksRef, nRequests>>
       ELSE onstopCatch(c, "failedTranscribe")

\* the TextField: onChange, disabled while transcribing
onChange(t) ==
  /\ mounted
  /\ ~isTranscribing
  /\ t \in Texts
  /\ t # inputText
  /\ inputText' = t
  /\ UNCHANGED <<wavVars, restVars, appVars, voiceState, isTranscribing, mediaRecorderRef,
                 audioChunksRef, cycles, nRequests>>

\* ---------------------------------------------------------------------- App

\* The Slide around ChatInterface: in={!showSettings && !showUpload}
\* mountOnEnter unmountOnExit.  When `in` becomes true and no instance is
\* mounted, a new instance with fresh state and refs is mounted.
ShowChat(s, u) ==
  LET chatIn == ~s /\ ~u IN
  /\ showSettings' = s
  /\ showUpload' = u
  /\ IF chatIn /\ ~mounted
       THEN /\ inst < MaxMounts
            /\ inst' = inst + 1
            /\ mounted' = TRUE
       ELSE UNCHANGED <<inst, mounted>>
  /\ UNCHANGED <<wavVars, restVars, voiceState, isTranscribing, inputText,
                 mediaRecorderRef, audioChunksRef, cycles, nRequests>>

toggleSettingsKeepsUpload ==
  /\ mounted \/ showSettings
  /\ ShowChat(~showSettings, showUpload)

toggleSettings ==
  /\ mounted \/ showSettings
  /\ ShowChat(~showSettings, FALSE)

toggleUpload ==
  /\ mounted \/ showUpload
  /\ ShowChat(FALSE, ~showUpload)

\* the exit transition of the Slide ends: ChatInterface is unmounted and its
\* state is dropped (no effect cleanup exists in ChatInterface)
ChatExited ==
  /\ mounted
  /\ showSettings \/ showUpload
  /\ mounted' = FALSE
  /\ voiceState' = VoiceIdle
  /\ isTranscribing' = FALSE
  /\ inputText' = ""
  /\ UNCHANGED <<wavVars, restVars, showSettings, showUpload, inst, mediaRecorderRef,
                 audioChunksRef, cycles, nRequests>>

\* ------------------------------------------------------------- WAV encoder

\* Sample values are the rationals n / SampleDen.  Every such value is a
\* Float32, and its product with 0x8000 or 0x7FFF is exact in a double.
SampleDen == 65536
\* numerators of the sample values explored: -2, -1.5, -1, -0.5, -0.25,
\* -3/65536, -1/65536, 0, 1/65536, 3/65536, 0.25, 0.5, 1, 1.5, 2
SampleGrid == <<-131072, -98304, -65536, -32768, -16384, -3, -1, 0,
                1, 3, 16384, 32768, 65536, 98304, 131072>>
\* sample rates explored
Rates == {8000, 16000, 44100}

\* an AudioBuffer whose samples walk through SampleGrid from position start,
\* in the order channel 0 sample 0, channel 1 sample 0, ...
AudioBuffer(C, N, R, start) ==
  [numberOfChannels |-> C, length |-> N, sampleRate |-> R,
   channels |-> [j \in 1..C |-> [i \in 1..N |->
      SampleGrid[((start + (i - 1) * C + (j - 1)) % Len(SampleGrid)) + 1]]]]

RenderedAudios ==
  {AudioBuffer(C, N, R, start) : C \in 1..MaxChannels, N \in 0..MaxSamples,
                                 R \in Rates, start \in 0..(Len(SampleGrid) - 1)}

\* new DataView(new ArrayBuffer(n)): n zero bytes at offsets 0..n-1
NewDataView(n) == [o \in 0..(n - 1) |-> 0]

\* DataView.setUint8 / setUint16 / setUint32 with littleEndian = true
setUint8(view, offset, v) == [view EXCEPT ![offset] = v % 256]
setUint16BigEndian(view, offset, v) ==
  LET u == v % 65536 IN
  [view EXCEPT ![offset] = u \div 256, ![offset + 1] = u % 256]
setUint16(view, offset, v) ==
  LET u == v % 65536 IN
  [view EXCEPT ![offset] = u % 256, ![offset + 1] = u \div 256]
setUint32(view, offset, v) ==
  [view EXCEPT ![offset] = v % 256,
               ![offset + 1] = (v \div 256) % 256,
               ![offset + 2] = (v \div 65536) % 256,
               ![offset + 3] = (v \div 16777216) % 256]

\* ToInt16 of the number num * scale / den (0 <= scale, 0 < den): truncated
\* towards zero, then modulo 2^16
ToInt16(num, scale, den) ==
  LET a == IF num >= 0 THEN num ELSE -num
      m == (a \div den) * scale + ((a % den) * scale) \div den
      t == IF num >= 0 THEN m ELSE -m
      u == t % 65536 IN
  IF u >= 32768 THEN u - 65536 ELSE u

\* DataView.setInt16(offset, num * scale / den, true)
setInt16(view, offset, num, scale, den) ==
  setUint16(view, offset, ToInt16(num, scale, den))

\* writeString: one byte per character; a string is its char codes
RECURSIVE writeString(_, _, _)
writeString(dataView, offset, string) ==
  IF string = <<>> THEN dataView
  ELSE writeString(setUint8(dataView, offset, Head(string)), offset + 1,
                   Tail(string))

RIFF == <<82, 73, 70, 70>>
WAVE == <<87, 65, 86, 69>>
fmt == <<102, 109, 116, 32>>
data == <<100, 97, 116, 97>>

clampNone(n) == n
clampToUnit(n) == IF n > SampleDen THEN SampleDen ELSE IF n < 0 THEN 0 ELSE n
\* Math.max(-1, Math.min(1, x)) on numerators
clamp(n) == IF n > SampleDen THEN SampleDen ELSE IF n < -SampleDen THEN -SampleDen ELSE n

riffSizeCountsHeader(length) == 44 + length
\* the value written at offset 4
riffSize(length) == 36 + length

\* the header writes of bufferToWav
wavHeader(view, numOfChannels, sampleRate, length) ==
  LET v0 == writeString(view, 0, RIFF)
      v1 == setUint32(v0, 4, riffSize(length))
      v2 == writeString(v1, 8, WAVE)
      v3 == writeString(v2, 12, fmt)
      v4 == setUint32(v3, 16, 16)
      v5 == setUint16(v4, 20, 1)
      v6 == setUint16(v5, 22, numOfChannels)
      v7 == setUint32(v6, 24, sampleRate)
      v8 == setUint32(v7, 28, sampleRate * numOfChannels * 2)
      v9 == setUint16(v8, 32, numOfChannels * 2)
      v10 == setUint16(v9, 34, 16)
      v11 == writeString(v10, 36, data)
  IN setUint32(v11, 40, length)

RECURSIVE wavDataPlanar(_, _, _, _, _)
wavDataPlanar(view, buffer, i, j, offset) ==
  IF i >= buffer.length THEN view
  ELSE IF j >= buffer.numberOfChannels
    THEN wavDataPlanar(view, buffer, i + 1, 0, offset)
    ELSE LET sample == clamp(buffer.channels[j + 1][i + 1])
             scale == IF sample < 0 THEN 32768 ELSE 32767
         IN wavDataPlanar(setInt16(view, 44 + 2 * (j * buffer.length + i),
                                   sample, scale, SampleDen),
                          buffer, i, j + 1, offset + 2)

\* the two loops of bufferToWav that write the samples, from (i, j, offset)
RECURSIVE wavData(_, _, _, _, _)
wavData(view, buffer, i, j, offset) ==
  IF i >= buffer.length THEN view
  ELSE IF j >= buffer.numberOfChannels
    THEN wavData(view, buffer, i + 1, 0, offset)
    ELSE LET sample == clamp(buffer.channels[j + 1][i + 1])
             scale == IF sample < 0 THEN 32768 ELSE 32767
         IN wavData(setInt16(view, offset, sample, scale, SampleDen),
                    buffer, i, j + 1, offset + 2)

\* the setInt16 calls the two loops make from (i, j, offset), in the order
\* they are made: the offset and the 16-bit value of each
RECURSIVE wavWrites(_, _, _, _)
wavWrites(buffer, i, j, offset) ==
  IF i >= buffer.length THEN <<>>
  ELSE IF j >= buffer.numberOfChannels
    THEN wavWrites(buffer, i + 1, 0, offset)
    ELSE LET sample == clamp(buffer.channels[j + 1][i + 1])
             scale == IF sample < 0 THEN 32768 ELSE 32767
         IN <<[offset |-> offset, value |-> ToInt16(sample, scale, SampleDen)]>>
              \o wavWrites(buffer, i, j + 1, offset + 2)

\* bufferToWav: the bytes of the Blob it returns
bufferToWav(buffer) ==
  LET numOfChannels == buffer.numberOfChannels
      length == buffer.length * numOfChannels * 2
      sampleRate == buffer.sampleRate
      wavDataView == NewDataView(44 + length)
  IN wavData(wavHeader(wavDataView, numOfChannels, sampleRate, length),
             buffer, 0, 0, 44)

\* an AudioBuffer is encoded
encodeWav ==
  /\ wavIn # NoAudio
  /\ wavOut = <<>>
  /\ wavOut' = bufferToWav(wavIn)
  /\ UNCHANGED <<wavIn, restVars, appVars, voiceState, isTranscribing, inputText,
                 mediaRecorderRef, audioChunksRef, cycles, nRequests>>

InitWav ==
  /\ showSettings = FALSE
  /\ showUpload = FALSE
  /\ mounted = TRUE
  /\ inst = 1
  /\ voiceState = VoiceIdle
  /\ isTranscribing = FALSE
  /\ inputText = ""
  /\ mediaRecorderRef = [i \in Insts |-> 0]
  /\ audioChunksRef = [i \in Insts |-> <<>>]
  /\ cycles = <<>>
  /\ nRequests = 0
  /\ wavIn \in RenderedAudios
  /\ wavOut = <<>>
  /\ RestIdle

\* --------------------------------------------------------------- resampler

\* resampleAudio(audioBlob, 16000)
targetSampleRate == 16000
\* sample rates of the AudioBuffer decodeAudioData returns: the rate of the
\* AudioContext, which is 16000 where the sampleRate option is honoured and
\* the rate of the device where it is not
SourceRates == {8000, 16000, 44100, 48000}
\* frame counts explored (an AudioBuffer has at least one frame): short
\* buffers and one second at each rate
SourceLengths == (1..MaxFrames) \cup SourceRates
DecodedAudios ==
  [numberOfChannels : 1..MaxChannels, length : SourceLengths,
   sampleRate : SourceRates]

\* the second argument of new OfflineAudioContext: audioBuffer.duration *
\* targetSampleRate, with duration = length / sampleRate, converted to
\* unsigned long, which drops the fractional part
offlineLength(audioBuffer) ==
  (audioBuffer.length * targetSampleRate) \div audioBuffer.sampleRate

\* new OfflineAudioContext(numberOfChannels, length, targetSampleRate) and
\* startRendering: a length of 0 throws NotSupportedError, otherwise the
\* rendered buffer has that many frames
renderOffline ==
  /\ rsIn # NoSource
  /\ rsOut = NoRender
  /\ rsOut' = IF offlineLength(rsIn) = 0
                THEN [NoRender EXCEPT !.threw = TRUE]
                ELSE [threw |-> FALSE,
                      numberOfChannels |-> rsIn.numberOfChannels,
                      length |-> offlineLength(rsIn),
                      sampleRate |-> targetSampleRate]
  /\ UNCHANGED <<rsIn, histVars, setVars, wavVars, appVars, voiceState, isTranscribing, inputText,
                 mediaRecorderRef, audioChunksRef, cycles, nRequests>>

InitResample ==
  /\ showSettings = FALSE
  /\ showUpload = FALSE
  /\ mounted = TRUE
  /\ inst = 1
  /\ voiceState = VoiceIdle
  /\ isTranscribing = FALSE
  /\ inputText = ""
  /\ mediaRecorderRef = [i \in Insts |-> 0]
  /\ audioChunksRef = [i \in Insts |-> <<>>]
  /\ cycles = <<>>
  /\ nRequests = 0
  /\ wavIn = NoAudio
  /\ wavOut = <<>>
  /\ rsIn \in DecodedAudios
  /\ rsOut = NoRender
  /\ HistIdle
  /\ SettingsIdle

\* ------------------------------------------------------- App: chat history

\* title: "New Chat"; every other title is the text of a message
NewChatTitle == 0
\* the ChatHistoryItem handleNewChat and the initial effect create.  Message
\* ids and timestamps are never read by a handler and are left out.
NewChatItem(id) == [id |-> id, title |-> NewChatTitle, messages |-> <<>>]

ChatIds(history) == {history[k].id : k \in 1..Len(history)}
\* prev.filter(chat => chat.id !== id)
WithoutChat(history, id) == SelectSeq(history, LAMBDA chat : chat.id # id)

\* the two setChatHistory updaters of handleSendMessage, for a closure whose
\* activeChatId is active; message / response 0 is the empty string
handleSendMessage(history, active, message, response) ==
  LET withUser ==
        IF message # 0
          THEN [k \in 1..Len(history) |->
                 IF history[k].id = active
                   THEN [history[k] EXCEPT
                          !.title = IF history[k].messages = <<>>
                                      THEN message ELSE @,
                          !.messages = Append(@, [sender |-> "user",
                                                  text |-> message])]
                   ELSE history[k]]
          ELSE history
      withBot ==
        IF response # 0
          THEN [k \in 1..Len(withUser) |->
                 IF withUser[k].id = active
                   THEN [withUser[k] EXCEPT
                          !.messages = Append(@, [sender |-> "bot",
                                                  text |-> response])]
                   ELSE withUser[k]]
          ELSE withUser
  IN IF active = 0 THEN history ELSE withBot

\* Date.now() moves on
Tick ==
  /\ now < MaxClock
  /\ now' = now + 1
  /\ UNCHANGED <<chatHistory, activeChatId, initializedRef, nSends,
                 sendPending, clearPending, wavVars, rsVars, appVars, voiceVars, setVars>>

\* the effect of App that creates the first chat; React runs it before any
\* event handler, so every handler below waits for it
initialChatEffect ==
  /\ chatHistory = <<>> /\ ~initializedRef
  /\ initializedRef' = TRUE
  /\ chatHistory' = <<NewChatItem(now)>>
  /\ activeChatId' = now
  /\ UNCHANGED <<now, nSends, sendPending, clearPending, wavVars, rsVars,
                 appVars, voiceVars, setVars>>

handleNewChat ==
  /\ initializedRef
  /\ Len(chatHistory) < MaxChats
  /\ chatHistory' = <<NewChatItem(now)>> \o chatHistory
  /\ activeChatId' = now
  /\ UNCHANGED <<initializedRef, now, nSends, sendPending, clearPending,
                 wavVars, rsVars, appVars, voiceVars, setVars>>

\* the id is that of a chat the sidebar lists
handleSelectChat(id) ==
  /\ initializedRef
  /\ id \in ChatIds(chatHistory)
  /\ activeChatId' = id
  /\ UNCHANGED <<chatHistory, initializedRef, now, nSends, sendPending,
                 clearPending, wavVars, rsVars, appVars, voiceVars, setVars>>

handleDeleteChatKeepsActive(id) ==
  /\ initializedRef
  /\ id \in ChatIds(chatHistory)
  /\ chatHistory' = WithoutChat(chatHistory, id)
  /\ UNCHANGED <<activeChatId, initializedRef, now, nSends, sendPending,
                 clearPending, wavVars, rsVars, appVars, voiceVars, setVars>>

\* handleDeleteChat; when no chat remains it calls handleNewChat, whose
\* updater runs after the filter
handleDeleteChat(id) ==
  LET remainingChats == WithoutChat(chatHistory, id) IN
  /\ initializedRef
  /\ id \in ChatIds(chatHistory)
  /\ IF id = activeChatId
       THEN IF Len(remainingChats) > 0
              THEN /\ chatHistory' = WithoutChat(chatHistory, id)
                   /\ activeChatId' = remainingChats[1].id
              ELSE /\ chatHistory' = <<NewChatItem(now)>>
                                       \o WithoutChat(chatHistory, id)
                   /\ activeChatId' = now
       ELSE /\ chatHistory' = WithoutChat(chatHistory, id)
            /\ activeChatId' = activeChatId
  /\ UNCHANGED <<initializedRef, now, nSends, sendPending, clearPending,
                 wavVars, rsVars, appVars, voiceVars, setVars>>

\* handleSend of ChatInterface up to its await: onSendMessage(inputText, '')
\* and the call of sendMessage.  A ChatInterface mounted later starts with
\* isLoading false, so requests can overlap.
handleSend ==
  /\ initializedRef
  /\ nSends < MaxSends
  /\ nSends' = nSends + 1
  /\ chatHistory' = handleSendMessage(chatHistory, activeChatId, nSends + 1, 0)
  /\ sendPending' = sendPending \cup {[n |-> nSends + 1, chat |-> activeChatId]}
  /\ UNCHANGED <<activeChatId, initializedRef, now, clearPending, wavVars,
                 rsVars, appVars, voiceVars, setVars>>

\* sendMessage settles: with a response, the onSendMessage the closure of
\* handleSend holds is called with ('', response); an empty response and a
\* failed request change nothing
sendMessageDone(r, how) ==
  /\ r \in sendPending
  /\ how \in {"response", "empty", "throws"}
  /\ sendPending' = sendPending \ {r}
  /\ chatHistory' = IF how = "response"
                      THEN handleSendMessage(chatHistory, r.chat, 0, r.n)
                      ELSE chatHistory
  /\ UNCHANGED <<activeChatId, initializedRef, now, nSends, clearPending,
                 wavVars, rsVars, appVars, voiceVars, setVars>>

\* handleClearHistory up to its await
handleClearHistory ==
  /\ initializedRef
  /\ activeChatId \notin clearPending
  /\ clearPending' = clearPending \cup {activeChatId}
  /\ UNCHANGED <<chatHistory, activeChatId, initializedRef, now, nSends,
                 sendPending, wavVars, rsVars, appVars, voiceVars, setVars>>

\* clearHistory settles: on success the chat whose id the closure holds
\* loses its messages and its title
clearHistoryDone(id, ok) ==
  /\ id \in clearPending
  /\ ok \in BOOLEAN
  /\ clearPending' = clearPending \ {id}
  /\ chatHistory' =
       IF ok /\ id # 0
         THEN [k \in 1..Len(chatHistory) |->
                IF chatHistory[k].id = id
                  THEN [chatHistory[k] EXCEPT !.messages = <<>>,
                                              !.title = NewChatTitle]
                  ELSE chatHistory[k]]
         ELSE chatHistory
  /\ UNCHANGED <<activeChatId, initializedRef, now, nSends, sendPending,
                 wavVars, rsVars, appVars, voiceVars, setVars>>

\* ---------------------------------------------------------- App: settings

\* the values the controls of SettingsPanel offer, two per control
LlmModels == {"llama-3.1-8b-instant", "llama-3.3-70b-versatile"}
AsrModels == {"conformer", "whisper"}
Temperatures == {3, 7}
\* the Partial<ChatSettings> the three controls pass to onSettingsChange
NewSettings ==
  {<<"llmModel", v>> : v \in LlmModels}
    \cup {<<"asrModel", v>> : v \in AsrModels}
    \cup {<<"temperature", v>> : v \in Temperatures}
\* { ...settings, ...newSettings }
merged(old, newSettings) == [old EXCEPT ![newSettings[1]] = newSettings[2]]

\* handleSettingsChange up to its await: setSettings(updatedSettings) and
\* the POST of updatedSettings.  A control calls onChange with a value other
\* than the one it shows.
handleSettingsChange(newSettings) ==
  /\ nChanges < MaxChanges
  /\ settings[newSettings[1]] # newSettings[2]
  /\ nChanges' = nChanges + 1
  /\ settings' = merged(settings, newSettings)
  /\ settingsPending' = settingsPending \cup
       {[n |-> nChanges + 1, body |-> merged(settings, newSettings)]}
  /\ UNCHANGED <<serverSettings, nFailed, wavVars, rsVars, histVars, appVars,
                 voiceVars>>

\* one request settles, in any order among those in flight: the server
\* accepted the body and answered ok, or updateSettings throws.  Either way
\* handleSettingsChange only shows a snackbar; settings stays as it is.
updateSettingsDone(r, ok) ==
  /\ r \in settingsPending
  /\ ok \in BOOLEAN
  /\ settingsPending' = settingsPending \ {r}
  /\ serverSettings' = IF ok THEN r.body ELSE serverSettings
  /\ nFailed' = IF ok THEN nFailed ELSE nFailed + 1
  /\ UNCHANGED <<settings, nChanges, wavVars, rsVars, histVars, appVars,
                 voiceVars>>

\* ------------------------------------------------------------ specifications

NextChat ==
  \/ micButtonClick
  \/ \E c \in CycleIds : PermissionDenied(c)
  \/ \E c \in CycleIds, how \in {"ok", "ctorThrows", "startThrows"} :
       PermissionGranted(c, how)
  \/ \E c \in CycleIds, size \in {0, 1} : ondataavailable(c, size)
  \/ \E c \in CycleIds : onstop(c)
  \/ \E c \in CycleIds, ok \in BOOLEAN : fileReaderDone(c, ok)
  \/ \E c \in CycleIds, how \in {"ok", "decodeRejects", "offlineCtxThrows"} :
       decodeDone(c, how)
  \/ \E c \in CycleIds, ok \in BOOLEAN : renderDone(c, ok)
  \/ \E c \in CycleIds, res \in {"ok", "non2xx", "reject"}, body \in Bodies :
       fetchDone(c, res, body)
  \/ \E c \in CycleIds : jsonDone(c)
  \/ \E t \in Texts : onChange(t)

Next ==
  \/ NextChat
  \/ toggleSettings
  \/ toggleUpload
  \/ ChatExited

\* the whole client: ChatInterface under App's panel switching
Spec == Init /\ [][Next]_vars

\* one ChatInterface instance that stays mounted
SpecChat == Init /\ [][NextChat]_vars

\* the events a stopped recorder and the pipeline of cycle c wait for: the
\* stop event, the FileReader, decodeAudioData, startRendering, fetch and
\* response.json()
PipelineStep(c) ==
  \/ onstop(c)
  \/ \E ok \in BOOLEAN : fileReaderDone(c, ok)
  \/ \E how \in {"ok", "decodeRejects", "offlineCtxThrows"} : decodeDone(c, how)
  \/ \E ok \in BOOLEAN : renderDone(c, ok)
  \/ \E res \in {"ok", "non2xx", "reject"}, body \in Bodies : fetchDone(c, res, body)
  \/ jsonDone(c)

\* one mounted ChatInterface in which every platform operation that was
\* started settles, with success or failure, and its callback is run
SpecChatFair ==
  Init /\ [][NextChat]_vars /\ \A c \in CycleIds : WF_vars(PipelineStep(c))

NextWav == encodeWav

\* bufferToWav applied to each AudioBuffer of RenderedAudios
SpecWav == InitWav /\ [][NextWav]_vars

NextHistory ==
  \/ Tick
  \/ initialChatEffect
  \/ handleNewChat
  \/ \E id \in 1..MaxClock : handleSelectChat(id)
  \/ \E id \in 1..MaxClock : handleDeleteChat(id)
  \/ handleSend
  \/ \E n \in 1..MaxSends, chat \in 1..MaxClock,
        how \in {"response", "empty", "throws"} :
       sendMessageDone([n |-> n, chat |-> chat], how)
  \/ handleClearHistory
  \/ \E id \in 1..MaxClock, ok \in BOOLEAN : clearHistoryDone(id, ok)

\* App's chat history under its handlers and the requests of ChatInterface
SpecHistory == Init /\ [][NextHistory]_vars

SettingsBodies ==
  [llmModel : LlmModels, asrModel : AsrModels, temperature : Temperatures]

NextSettings ==
  \/ \E newSettings \in NewSettings : handleSettingsChange(newSettings)
  \/ \E n \in 1..MaxChanges, body \in SettingsBodies, ok \in BOOLEAN :
       updateSettingsDone([n |-> n, body |-> body], ok)

\* App's settings under the controls of SettingsPanel and the requests
SpecSettings == Init /\ [][NextSettings]_vars

NextResample == renderOffline

\* the offline rendering of resampleAudio for each AudioBuffer of DecodedAudios
SpecResample == InitResample /\ [][NextResample]_vars

TypeOK ==
  /\ showSettings \in BOOLEAN /\ showUpload \in BOOLEAN /\ mounted \in BOOLEAN
  /\ inst \in Insts
  /\ voiceState \in {VoiceIdle, VoiceRecording, VoiceStartError, VoiceProcessError}
  /\ isTranscribing \in BOOLEAN
  /\ inputText \in Texts \cup Transcripts
  /\ Len(cycles) <= MaxCycles
  /\ \A i \in Insts : mediaRecorderRef[i] \in 0..Len(cycles)

\* ------------------------------------------------------------------ claims

Recording == {c \in Cycles : cycles[c].recorder = "recording"}
HoldingStream == {c \in Cycles : cycles[c].stream = "live"}
InPipeline == {c \in Cycles : cycles[c].pc \in PipelineStages \cup {"stopping"}}
\* every chunk stored or in a blob
AllChunks(cs, ref) ==
  UNION {{ref[i][n] : n \in 1..Len(ref[i])} : i \in Insts}
    \cup UNION {{cs[c].blob[n] : n \in 1..Len(cs[c].blob)} : c \in 1..Len(cs)}

\* C1: a press of the mic button while isRecording is true starts nothing:
\* startRecording runs (a cycle is added) only from a state whose isRecording
\* is false, and the step that stops the recorder adds no cycle, creates no
\* recorder and leaves every chunk sequence as it was.
C1_StartWhileRecordingIsNoOp ==
  [][ /\ Len(cycles') > Len(cycles) => ~voiceState.isRecording
      /\ voiceState.isRecording
           /\ (\E c \in Cycles : cycles[c].pc = "recording" /\ cycles'[c].pc = "stopping")
         => /\ Len(cycles') = Len(cycles)
            /\ audioChunksRef' = audioChunksRef
            /\ mediaRecorderRef' = mediaRecorderRef
            /\ \A c \in Cycles : cycles'[c].recorder = "recording"
                                   => cycles[c].recorder = "recording" ]_vars

\* a press arrived while the permission request was pending and another
\* while the stop event was pending, and the one recorder went on to onstop
C1_Witness ==
  /\ Len(cycles) = 1
  /\ cycles[1].pc = "reading"
  /\ Len(cycles[1].blob) = MaxChunks

\* C2: at most one MediaRecorder is recording and at most one microphone
\* stream is held.
C2_OneSessionAtATime ==
  /\ Cardinality(Recording) <= 1
  /\ Cardinality(HoldingStream) <= 1

\* C3: every cycle whose stop callback has run to its end, with any outcome,
\* has all tracks of its stream stopped.
C3_DeviceReleasedAfterCycle ==
  \A c \in Cycles : cycles[c].pc \in StoppedEnds => cycles[c].stream = "stopped"

\* one cycle failed in resampling and another succeeded, one of them in an
\* instance that was unmounted meanwhile
C3_Witness ==
  \E c, d \in Cycles :
    /\ cycles[c].pc = "failedResample" /\ cycles[c].stream = "stopped"
    /\ cycles[d].pc = "done" /\ cycles[d].stream = "stopped"
    /\ cycles[c].inst # cycles[d].inst

\* C4: while a cycle is in its resample, encode or transcribe stage the
\* microphone stream of that cycle is no longer held.
C4_StreamReleasedWhileTranscribing ==
  \A c \in Cycles : cycles[c].pc \in PipelineStages => cycles[c].stream # "live"

\* C5: when getUserMedia rejects, the cycle has no recorder, no chunk, no
\* stream and no pipeline stage, and voiceState of the component is
\* isRecording = false with the error set, until the next start.
C5_DeniedIsReported ==
  \A c \in Cycles : cycles[c].pc = "denied" =>
    /\ cycles[c].recorder = "none"
    /\ cycles[c].stream = "none"
    /\ cycles[c].nResample = 0 /\ cycles[c].nTranscribe = 0
    /\ \A ch \in AllChunks(cycles, audioChunksRef) : ch.cyc # c
    /\ \A i \in Insts : mediaRecorderRef[i] # c
    /\ c = Len(cycles) => voiceState = VoiceStartError

C5_Witness ==
  /\ Len(cycles) = 2
  /\ cycles[1].pc = "done"
  /\ cycles[2].pc = "denied"
  /\ voiceState = VoiceStartError

\* C6: a step of a recording cycle changes inputText only when transcribeAudio
\* returns a transcript, and then to that transcript; a step in which a cycle
\* ends in an error leaves inputText as it was.
C6_NoPartialResult ==
  [][ /\ cycles' # cycles /\ inputText' # inputText =>
           \E c \in Cycles : /\ cycles[c].pc = "json" /\ cycles'[c].pc = "done"
                             /\ cycles[c].body \in Transcripts
                             /\ inputText' = cycles[c].body
      /\ \A c \in Cycles :
           cycles[c].pc \notin ErrorEnds /\ cycles'[c].pc \in ErrorEnds
             => inputText' = inputText ]_vars

\* a cycle failed after the user had typed text, and the text is still there
C6_Witness ==
  /\ Len(cycles) = 2
  /\ cycles[1].pc = "done"
  /\ cycles[2].pc = "failedTranscribe"
  /\ inputText = "typed"

\* C7: at most one cycle is between stop and the end of transcription, and
\* while isTranscribing is true no cycle is starting or recording.
C7_OnePipelineInFlight ==
  /\ Cardinality(InPipeline) <= 1
  /\ isTranscribing =>
       \A c \in Cycles : cycles[c].pc \notin {"perm", "recording", "stopping"}

C7_Witness ==
  /\ Len(cycles) = 2
  /\ cycles[1].pc \in StoppedEnds
  /\ cycles[2].pc = "fetching"
  /\ isTranscribing

\* C8: a cycle calls resampleAudio at most once and transcribeAudio at most
\* once, and a request is sent only by the latest cycle, once, after its
\* recorder was stopped and its audio rendered.
C8_NoAutomaticRetry ==
  /\ [](/\ \A c \in Cycles : cycles[c].nResample <= 1 /\ cycles[c].nTranscribe <= 1
        /\ nRequests = Cardinality({c \in Cycles : cycles[c].nTranscribe = 1}))
  /\ [][ nRequests' # nRequests =>
           /\ nRequests' = nRequests + 1
           /\ cycles[Len(cycles)].pc = "rendering"
           /\ cycles[Len(cycles)].nTranscribe = 0
           /\ cycles'[Len(cycles)].nTranscribe = 1 ]_vars

\* a cycle failed in transcription, no request followed, and the request of
\* the next cycle was sent after the user recorded again
C8_Witness ==
  /\ Len(cycles) = 2
  /\ cycles[1].pc = "failedTranscribe"
  /\ cycles[2].pc = "fetching"
  /\ nRequests = 2

\* C9: when the latest cycle has ended in an error, isRecording and
\* isTranscribing are both false, and a blob holds only chunks delivered by
\* the recorder of its own cycle.
C9_ErrorsAreLocal ==
  /\ Len(cycles) > 0 /\ cycles[Len(cycles)].pc \in ErrorEnds
       => ~voiceState.isRecording /\ ~isTranscribing
  /\ \A c \in Cycles : \A n \in 1..Len(cycles[c].blob) : cycles[c].blob[n].cyc = c

\* the first cycle failed with chunks delivered, the second formed its blob
C9_Witness ==
  /\ Len(cycles) = 2
  /\ cycles[1].pc \in ErrorEnds \ {"denied", "startfail"}
  /\ cycles[2].pc = "reading"
  /\ cycles[2].blob # <<>>
  /\ \E i \in Insts : audioChunksRef[i] # <<>>

\* reading the container back: little-endian fields and strings
U16At(view, o) == view[o] + 256 * view[o + 1]
U32At(view, o) ==
  view[o] + 256 * view[o + 1] + 65536 * view[o + 2] + 16777216 * view[o + 3]
StringAt(view, o, n) == [k \in 1..n |-> view[o + k - 1]]

\* C10: for N samples per channel, C channels and rate R, bufferToWav returns
\* 44 + N*C*2 bytes with the header fields of the canonical layout.
C10_WavLengthAndHeader ==
  wavOut # <<>> =>
    LET N == wavIn.length
        C == wavIn.numberOfChannels
        R == wavIn.sampleRate
    IN /\ DOMAIN wavOut = 0..(44 + N * C * 2 - 1)
       /\ \A o \in DOMAIN wavOut : wavOut[o] \in 0..255
       /\ StringAt(wavOut, 0, 4) = RIFF
       /\ U32At(wavOut, 4) = 36 + N * C * 2
       /\ StringAt(wavOut, 8, 4) = WAVE
       /\ StringAt(wavOut, 12, 4) = fmt
       /\ U32At(wavOut, 16) = 16
       /\ U16At(wavOut, 20) = 1
       /\ U16At(wavOut, 22) = C
       /\ U32At(wavOut, 24) = R
       /\ U32At(wavOut, 28) = R * C * 2
       /\ U16At(wavOut, 32) = C * 2
       /\ U16At(wavOut, 34) = 16
       /\ StringAt(wavOut, 36, 4) = data
       /\ U32At(wavOut, 40) = N * C * 2

\* a two-channel buffer of MaxSamples samples at 44100 Hz has been encoded
C10_Witness ==
  /\ wavOut # <<>>
  /\ wavIn.numberOfChannels = 2
  /\ wavIn.length = MaxSamples
  /\ wavIn.sampleRate = 44100
  /\ U32At(wavOut, 40) = MaxSamples * 4

\* C11: the header written by bufferToWav, read back, gives the channel count
\* (offset 22), the sample rate (offset 24) and the per-channel sample count
\* (data length at offset 40 divided by block align at offset 32) of the
\* AudioBuffer that was encoded.
C11_HeaderRoundTrip ==
  wavOut # <<>> =>
    /\ U16At(wavOut, 22) = wavIn.numberOfChannels
    /\ U32At(wavOut, 24) = wavIn.sampleRate
    /\ U16At(wavOut, 32) > 0
    /\ U32At(wavOut, 40) % U16At(wavOut, 32) = 0
    /\ U32At(wavOut, 40) \div U16At(wavOut, 32) = wavIn.length

\* a two-channel buffer of MaxSamples samples at 16000 Hz was encoded and
\* its sample count read back
C11_Witness ==
  /\ wavOut # <<>>
  /\ wavIn.numberOfChannels = 2
  /\ wavIn.sampleRate = 16000
  /\ wavIn.length = MaxSamples
  /\ U32At(wavOut, 40) \div U16At(wavOut, 32) = MaxSamples

\* the signed 16-bit little-endian value at offset o
I16At(view, o) ==
  IF U16At(view, o) >= 32768 THEN U16At(view, o) - 65536 ELSE U16At(view, o)
\* the offset of sample i of channel j (both from 0) in the container
SampleOffset(buffer, i, j) == 44 + 2 * (i * buffer.numberOfChannels + j)
\* the (sample, channel) positions of a buffer
Positions(buffer) ==
  (0..(buffer.length - 1)) \X (0..(buffer.numberOfChannels - 1))
\* the numerator of sample i of channel j
SampleAt(buffer, i, j) == buffer.channels[j + 1][i + 1]

\* C12: every sample >= 1 is written as 32767 and every sample <= -1 as
\* -32768, the values 1.0 and -1.0 encode to, and no written value has
\* wrapped around: it is >= 0 for a sample >= 0 and <= 0 for a sample <= 0.
C12_Clamping ==
  wavOut # <<>> =>
    \A p \in Positions(wavIn) :
      LET x == SampleAt(wavIn, p[1], p[2])
          v == I16At(wavOut, SampleOffset(wavIn, p[1], p[2]))
      IN /\ v \in -32768..32767
         /\ x >= SampleDen => v = 32767
         /\ x <= -SampleDen => v = -32768
         /\ x >= 0 => v >= 0
         /\ x <= 0 => v <= 0

\* samples 1, 1.5 and 2 of one buffer were all written as 32767
C12_Witness ==
  /\ wavOut # <<>>
  /\ wavIn.numberOfChannels = 1
  /\ wavIn.length >= 3
  /\ SampleAt(wavIn, 0, 0) = SampleDen
  /\ SampleAt(wavIn, 1, 0) > SampleDen
  /\ SampleAt(wavIn, 2, 0) > SampleAt(wavIn, 1, 0)
  /\ \A i \in 0..2 : I16At(wavOut, 44 + 2 * i) = 32767

\* C13: a step in which the request of a cycle gets a non-2xx response or is
\* rejected ends the cycle as failed, with the error set in voiceState,
\* isTranscribing false, inputText as it was and no further request; a step
\* with a 2xx response goes on to read the body, and the step that reads a
\* body with a transcript field puts that transcript into inputText.
C13_TranscribeFailure ==
  [][ /\ \A c \in CycleIds, res \in {"non2xx", "reject"}, body \in Bodies :
           fetchDone(c, res, body) =>
             /\ cycles'[c].pc = "failedTranscribe"
             /\ voiceState'.error = "Error processing audio"
             /\ ~voiceState'.isRecording
             /\ isTranscribing' = FALSE
             /\ inputText' = inputText
             /\ nRequests' = nRequests
      /\ \A c \in CycleIds, body \in Bodies :
           fetchDone(c, "ok", body) =>
             /\ cycles'[c].pc = "json"
             /\ cycles'[c].body = body
             /\ isTranscribing'
             /\ inputText' = inputText
      /\ \A c \in CycleIds :
           jsonDone(c) /\ cycles[c].body \in Transcripts =>
             /\ cycles'[c].pc = "done"
             /\ inputText' = cycles[c].body
             /\ isTranscribing' = FALSE ]_vars

\* the request of the first cycle failed while the field held typed text,
\* and the request of the second returned a transcript
C13_Witness ==
  /\ Len(cycles) = 2
  /\ cycles[1].pc = "failedTranscribe"
  /\ cycles[1].nTranscribe = 1
  /\ cycles[2].pc = "done"
  /\ inputText \in Transcripts
  /\ ~isTranscribing

\* the chunks 1..n of recorder c in the order the recorder emitted them
InArrivalOrder(c, n) == [m \in 1..n |-> [cyc |-> c, k |-> m]]
\* the cycles whose recorder has been stopped and whose onstop has not run
SessionOpen(cs) == {c \in 1..Len(cs) : cs[c].pc \in {"recording", "stopping"}}

\* C14: the chunk array of an instance changes only by the append of one
\* chunk of a recorder whose session is open or by the reset of a start;
\* the Blob onstop forms is exactly the chunks of its own recorder in arrival
\* order, it stays as formed while the pipeline uses it, and from onstop on
\* no chunk of that recorder is appended.
C14_ChunksAppendOnlyOrdered ==
  /\ [](\A c \in Cycles :
         LET own == ChunksOf(audioChunksRef[cycles[c].inst], c) IN
         /\ cycles[c].pc \in {"recording", "stopping"} \cup PipelineStages
              => /\ own = InArrivalOrder(c, Len(own))
                 /\ audioChunksRef[cycles[c].inst] = own
         /\ cycles[c].pc \in PipelineStages => cycles[c].blob = own)
  /\ [][ /\ audioChunksRef' # audioChunksRef =>
             /\ \A i \in Insts :
                  \/ audioChunksRef'[i] = audioChunksRef[i]
                  \/ \E c \in SessionOpen(cycles) :
                       /\ cycles[c].inst = i
                       /\ audioChunksRef'[i] =
                            Append(audioChunksRef[i],
                                   [cyc |-> c, k |-> Len(audioChunksRef[i]) + 1])
                  \/ /\ audioChunksRef'[i] = <<>>
                     /\ \E c \in Cycles : /\ cycles[c].inst = i
                                           /\ cycles[c].pc = "perm"
                                           /\ cycles'[c].pc # "perm"
             /\ \A c \in Cycles :
                  cycles[c].pc \notin {"perm", "recording", "stopping"}
                    => Len(ChunksOf(audioChunksRef'[cycles[c].inst], c))
                         <= Len(ChunksOf(audioChunksRef[cycles[c].inst], c))
         /\ cycles' # cycles =>
             \A c \in Cycles :
               /\ cycles[c].pc = "stopping" /\ cycles'[c].pc = "reading"
                    => cycles'[c].blob =
                         InArrivalOrder(c, Len(audioChunksRef[cycles[c].inst]))
               /\ cycles[c].pc \in PipelineStages /\ cycles'[c].pc \in PipelineStages
                    => cycles'[c].blob = cycles[c].blob ]_vars

\* after a first session has ended, the second session delivered MaxChunks
\* chunks and onstop formed its blob from them
C14_Witness ==
  /\ Len(cycles) = 2
  /\ cycles[1].pc \in StoppedEnds
  /\ cycles[2].pc = "decoding"
  /\ cycles[2].blob = InArrivalOrder(2, MaxChunks)
  /\ audioChunksRef[cycles[2].inst] = cycles[2].blob

\* the position of a stage in the order of one cycle
StageOrder ==
  <<"perm", "recording", "stopping", "reading", "decoding", "rendering",
    "fetching", "json", "done">>
StageRank(pc) == CHOOSE r \in 1..Len(StageOrder) : StageOrder[r] = pc
\* the stages in which each way of failing can happen
FailsFrom(end) ==
  CASE end \in {"denied", "startfail"} -> {"perm"}
    [] end = "failedResample" -> {"reading", "decoding", "rendering"}
    [] end = "failedTranscribe" -> {"fetching", "json"}

\* C15: a cycle moves through capture, stop, read, decode, render, request,
\* response body and result one stage at a time and in this order, or ends
\* in the failure of the stage it is in; resampleAudio is called only when
\* the stop event arrives, bufferToWav and transcribeAudio only when the
\* rendering has completed, inputText is set by a cycle only when its
\* response body has been read, and from the read stage on the recorder of
\* the cycle is inactive.
C15_StagesInOrder ==
  /\ [](\A c \in Cycles :
         /\ cycles[c].pc \in PipelineStages \cup StoppedEnds
              => /\ cycles[c].recorder = "inactive"
                 /\ cycles[c].nResample = 1
         /\ cycles[c].pc \in {"fetching", "json", "done", "failedTranscribe"}
              <=> cycles[c].nTranscribe = 1
         /\ cycles[c].nEncode = cycles[c].nTranscribe)
  /\ [][ /\ cycles' # cycles => \A c \in Cycles :
             /\ cycles'[c].pc # cycles[c].pc =>
                  IF cycles'[c].pc \in ErrorEnds
                    THEN cycles[c].pc \in FailsFrom(cycles'[c].pc)
                    ELSE /\ cycles[c].pc \notin ErrorEnds \cup {"done"}
                         /\ StageRank(cycles'[c].pc) = StageRank(cycles[c].pc) + 1
             /\ cycles'[c].nResample # cycles[c].nResample
                  => cycles[c].pc = "stopping" /\ cycles'[c].pc = "reading"
             /\ cycles'[c].nEncode # cycles[c].nEncode
                  => cycles[c].pc = "rendering" /\ cycles'[c].pc = "fetching"
             /\ cycles'[c].nTranscribe # cycles[c].nTranscribe
                  => /\ cycles[c].pc = "rendering" /\ cycles'[c].pc = "fetching"
                     /\ cycles'[c].nEncode = 1
         /\ cycles' # cycles /\ inputText' # inputText
             => \E c \in Cycles : cycles[c].pc = "json" /\ cycles'[c].pc = "done" ]_vars

\* one cycle went through every stage and its transcript is in the field
C15_Witness ==
  /\ Len(cycles) = 1
  /\ cycles[1].pc = "done"
  /\ cycles[1].nResample = 1 /\ cycles[1].nEncode = 1 /\ cycles[1].nTranscribe = 1
  /\ cycles[1].recorder = "inactive"
  /\ inputText \in Transcripts

\* what a failure inside resampleAudio leaves behind for cycle c
ResampleAborted(c) ==
  /\ cycles'[c].pc = "failedResample"
  /\ cycles'[c].nEncode = 0
  /\ cycles'[c].nTranscribe = 0
  /\ nRequests' = nRequests
  /\ inputText' = inputText
  /\ Live(c) => voiceState' = VoiceProcessError /\ isTranscribing' = FALSE

\* C16: a step in which the read, the decoding, the construction of the
\* offline context or the rendering of a cycle fails ends that cycle with
\* bufferToWav and transcribeAudio never called and no request sent, and in
\* the instance of that cycle voiceState is isRecording = false with error
\* 'Error processing audio' and isTranscribing is false; this is still so
\* as long as that cycle stays the latest one.
C16_ResampleFailureAborts ==
  /\ [](\A c \in Cycles : cycles[c].pc = "failedResample" =>
         /\ cycles[c].nEncode = 0 /\ cycles[c].nTranscribe = 0
         /\ c = Len(cycles) /\ Live(c)
              => voiceState = VoiceProcessError /\ ~isTranscribing)
  /\ [][ cycles' # cycles =>
           \A c \in Cycles :
             cycles[c].pc \in {"reading", "decoding", "rendering"} =>
               /\ fileReaderDone(c, FALSE) => ResampleAborted(c)
               /\ \A how \in {"decodeRejects", "offlineCtxThrows"} :
                    decodeDone(c, how) => ResampleAborted(c)
               /\ renderDone(c, FALSE) => ResampleAborted(c) ]_vars

\* after a cycle that succeeded, the next cycle failed inside resampleAudio
\* in the mounted instance
C16_Witness ==
  /\ Len(cycles) = 2
  /\ cycles[1].pc = "done"
  /\ cycles[2].pc = "failedResample"
  /\ Live(2)
  /\ voiceState = VoiceProcessError
  /\ ~isTranscribing
  /\ nRequests = 1

\* C17: when every platform operation settles, every cycle whose recorder
\* was stopped reaches the end of its stop handler with isTranscribing
\* false, and a cycle whose blob is empty ends as failed in resampleAudio
\* with the error set.
C17_StoppedCycleTerminates ==
  \A c \in CycleIds :
    /\ (c \in Cycles /\ cycles[c].pc = "stopping")
         ~> (c \in Cycles /\ cycles[c].pc \in StoppedEnds /\ ~isTranscribing)
    /\ (c \in Cycles /\ cycles[c].pc = "reading" /\ cycles[c].blob = <<>>)
         ~> (/\ c \in Cycles
             /\ cycles[c].pc = "failedResample"
             /\ voiceState = VoiceProcessError
             /\ ~isTranscribing)

\* a cycle stopped with no chunk delivered has ended in the error state
C17_Witness ==
  /\ Len(cycles) = 1
  /\ cycles[1].pc = "failedResample"
  /\ cycles[1].recorder = "inactive"
  /\ audioChunksRef[cycles[1].inst] = <<>>
  /\ voiceState = VoiceProcessError
  /\ ~isTranscribing

\* v is |num| * scale / den rounded to a nearest integer, with the sign of
\* num (either neighbour when the fractional part is exactly one half)
IsRounded(v, num, scale, den) ==
  LET a == IF num >= 0 THEN num ELSE -num
      q == (a \div den) * scale + ((a % den) * scale) \div den
      r == ((a % den) * scale) % den
      m == IF num >= 0 THEN v ELSE -v
  IN CASE 2 * r < den -> m = q
       [] 2 * r > den -> m = q + 1
       [] OTHER -> m \in {q, q + 1}

\* C18: every 16-bit value bufferToWav writes is round(s * 32768) for a
\* clamped sample s < 0 and round(s * 32767) for s >= 0.
C18_QuantizationRounds ==
  wavOut # <<>> =>
    \A p \in Positions(wavIn) :
      LET sample == clamp(SampleAt(wavIn, p[1], p[2]))
          v == I16At(wavOut, SampleOffset(wavIn, p[1], p[2]))
      IN IsRounded(v, sample, IF sample < 0 THEN 32768 ELSE 32767, SampleDen)

Abs(n) == IF n >= 0 THEN n ELSE -n
\* the buffer with every sample x replaced by -x
Negated(buffer) ==
  [buffer EXCEPT !.channels =
     [j \in 1..buffer.numberOfChannels |->
        [i \in 1..buffer.length |-> -buffer.channels[j][i]]]]

\* C19: a sample 0 is written as 0, and for a sample x with 0 < |x| <= 1
\* the value written for x and the value bufferToWav writes for -x have
\* opposite signs and magnitudes that differ by at most 1.
C19_QuantizationBoundary ==
  wavOut # <<>> =>
    LET mirror == bufferToWav(Negated(wavIn)) IN
    \A p \in Positions(wavIn) :
      LET x == SampleAt(wavIn, p[1], p[2])
          v == I16At(wavOut, SampleOffset(wavIn, p[1], p[2]))
          w == I16At(mirror, SampleOffset(wavIn, p[1], p[2]))
      IN /\ x = 0 => v = 0 /\ w = 0
         /\ 0 < Abs(x) /\ Abs(x) <= SampleDen
              => /\ Abs(Abs(v) - Abs(w)) <= 1
                 /\ (x > 0 => v >= 0 /\ w <= 0)
                 /\ (x < 0 => v <= 0 /\ w >= 0)

\* a buffer holding 0 and 0.25 was encoded: 0 as 0, 0.25 as 8191, and -0.25
\* encodes as -8192
C19_Witness ==
  /\ wavOut # <<>>
  /\ \E p \in Positions(wavIn) :
       /\ SampleAt(wavIn, p[1], p[2]) = 0
       /\ I16At(wavOut, SampleOffset(wavIn, p[1], p[2])) = 0
  /\ \E p \in Positions(wavIn) :
       /\ SampleAt(wavIn, p[1], p[2]) = 16384
       /\ I16At(wavOut, SampleOffset(wavIn, p[1], p[2])) = 8191
       /\ I16At(bufferToWav(Negated(wavIn)), SampleOffset(wavIn, p[1], p[2])) = -8192

\* the view after the setUint16 writes of a list, made in order
RECURSIVE ApplyWrites(_, _)
ApplyWrites(view, writes) ==
  IF writes = <<>> THEN view
  ELSE ApplyWrites(setUint16(view, Head(writes).offset, Head(writes).value),
                   Tail(writes))
\* the container right after the header writes of bufferToWav
HeaderOnly(buffer) ==
  LET length == buffer.length * buffer.numberOfChannels * 2 IN
  wavHeader(NewDataView(44 + length), buffer.numberOfChannels,
            buffer.sampleRate, length)
\* the 16-bit value sample i of channel j is quantized to
Quantized(buffer, i, j) ==
  LET sample == clamp(SampleAt(buffer, i, j)) IN
  ToInt16(sample, IF sample < 0 THEN 32768 ELSE 32767, SampleDen)

\* C20: the value of sample i of channel j is at offset 44 + 2*(i*C + j) as
\* a little-endian signed 16-bit integer; the sample loop makes N*C writes,
\* none below offset 44, every byte from 44 on is covered by exactly one of
\* them, and the 44 header bytes are as the header writes left them.
C20_Interleaving ==
  wavOut # <<>> =>
    LET C == wavIn.numberOfChannels
        N == wavIn.length
        writes == wavWrites(wavIn, 0, 0, 44)
    IN /\ \A p \in Positions(wavIn) :
            I16At(wavOut, 44 + 2 * (p[1] * C + p[2])) = Quantized(wavIn, p[1], p[2])
       /\ Len(writes) = N * C
       /\ ApplyWrites(HeaderOnly(wavIn), writes) = wavOut
       /\ \A n \in 1..Len(writes) : writes[n].offset >= 44
       /\ \A o \in 44..(44 + 2 * N * C - 1) :
            Cardinality({n \in 1..Len(writes) :
                           o \in {writes[n].offset, writes[n].offset + 1}}) = 1
       /\ \A o \in 0..43 : wavOut[o] = HeaderOnly(wavIn)[o]

\* a two-channel buffer was encoded whose sample 0 of channel 1 and sample 1
\* of channel 0 have different values, found at offsets 46 and 48
C20_Witness ==
  /\ wavOut # <<>>
  /\ wavIn.numberOfChannels = 2
  /\ wavIn.length = MaxSamples
  /\ Quantized(wavIn, 0, 1) # Quantized(wavIn, 1, 0)
  /\ I16At(wavOut, 46) = Quantized(wavIn, 0, 1)
  /\ I16At(wavOut, 48) = Quantized(wavIn, 1, 0)
  /\ Quantized(wavIn, 0, 1) < 0

\* C21: the offline buffer has ceil(duration * targetSampleRate) frames and
\* the channel count of the source, and one second of audio gives 16000
\* frames within 1.
C21_OfflineLengthIsCeil ==
  rsOut # NoRender =>
    /\ ~rsOut.threw
    /\ rsOut.numberOfChannels = rsIn.numberOfChannels
    /\ rsOut.length * rsIn.sampleRate >= rsIn.length * targetSampleRate
    /\ (rsOut.length - 1) * rsIn.sampleRate < rsIn.length * targetSampleRate
    /\ rsIn.length = rsIn.sampleRate => Abs(rsOut.length - targetSampleRate) <= 1

\* C22: the chunk array of an instance holds no chunk of a cycle whose stop
\* handler has run to its end.
C22_ChunksNotRetained ==
  \A c \in Cycles :
    cycles[c].pc \in StoppedEnds
      => ChunksOf(audioChunksRef[cycles[c].inst], c) = <<>>

\* C23: no microphone stream is held in a state where isRecording is false,
\* isTranscribing is false and no recorder is recording.
C23_StreamReleasedOnStartFailure ==
  ~voiceState.isRecording /\ ~isTranscribing /\ Recording = {}
    => HoldingStream = {}

\* C24: isRecording and isTranscribing are never both true; the step that
\* sets isTranscribing leaves isRecording false, and startRecording runs
\* only while isTranscribing is false.
C24_NotRecordingAndTranscribing ==
  /\ [](~(voiceState.isRecording /\ isTranscribing))
  /\ [][ /\ ~isTranscribing /\ isTranscribing' => ~voiceState'.isRecording
         /\ Len(cycles') > Len(cycles) => ~isTranscribing /\ ~isTranscribing'
         /\ ~voiceState.isRecording /\ voiceState'.isRecording
              => ~isTranscribing /\ ~isTranscribing' ]_vars

\* the stop handler of the second cycle has set isTranscribing and cleared
\* isRecording, after the first cycle had been transcribed
C24_Witness ==
  /\ Len(cycles) = 2
  /\ cycles[1].pc = "done"
  /\ cycles[2].pc = "reading"
  /\ isTranscribing
  /\ ~voiceState.isRecording

\* C25: whenever a MediaRecorder is recording, isRecording of the displayed
\* ChatInterface is true.
C25_RecorderKnownToDisplayedChat ==
  mounted /\ Recording # {} => voiceState.isRecording
\* C26: once the initial chat exists, chatHistory is never empty and
\* activeChatId is the id of a chat in it, after every step of
\* handleNewChat, handleSelectChat, handleDeleteChat, handleClearHistory and
\* the message handlers; deleting the active chat selects the first
\* remaining chat, and deleting the last chat leaves exactly one fresh chat,
\* which is the active one.
ActiveChatExists ==
  initializedRef => /\ Len(chatHistory) >= 1
                    /\ activeChatId \in ChatIds(chatHistory)

C26_ActiveChatAlwaysExists ==
  /\ [](ActiveChatExists)
  /\ [][\A id \in 1..MaxClock :
          handleDeleteChat(id) =>
            LET remainingChats == WithoutChat(chatHistory, id) IN
            /\ (id = activeChatId /\ remainingChats # <<>>
                  => /\ activeChatId' = remainingChats[1].id
                     /\ chatHistory' = remainingChats)
            /\ (remainingChats = <<>>
                  => chatHistory' = <<NewChatItem(activeChatId')>>)
            /\ (id # activeChatId => activeChatId' = activeChatId)]_vars

\* the only chat is a fresh one and is active, while a request sent from a
\* chat that has since been deleted is still in flight
C26_Witness ==
  /\ initializedRef
  /\ Len(chatHistory) = 1
  /\ chatHistory[1] = NewChatItem(activeChatId)
  /\ \E r \in sendPending : r.chat \notin ChatIds(chatHistory)

\* C27: the response to a message is appended to the one chat that was
\* active when the message was sent, whatever chat is active when it
\* arrives; no other chat changes, and when no chat has the originating id
\* any more the response is dropped.
C27_ResponseToOriginatingChat ==
  [][\A n \in 1..MaxSends, chat \in 1..MaxClock :
       sendMessageDone([n |-> n, chat |-> chat], "response") =>
         LET changed == {k \in 1..Len(chatHistory) :
                           chatHistory'[k] # chatHistory[k]} IN
         /\ Len(chatHistory') = Len(chatHistory)
         /\ Cardinality(changed) <= 1
         /\ \A k \in changed :
              /\ chatHistory[k].id = chat
              /\ chatHistory'[k] =
                   [chatHistory[k] EXCEPT
                     !.messages = Append(@, [sender |-> "bot", text |-> n])]
         /\ (chat \notin ChatIds(chatHistory) => changed = {})
         /\ (chat \in ChatIds(chatHistory) => changed # {})]_vars

\* C28: once every update request has completed, the settings the server
\* accepted last are the client's settings when all requests succeeded, and
\* the client's settings are the last accepted ones when a request failed.
C28_SettingsConverge ==
  nChanges > 0 /\ settingsPending = {} =>
    /\ (nFailed = 0 => serverSettings = settings)
    /\ (nFailed > 0 /\ serverSettings # NoSettings
          => settings = serverSettings)

\* C29: showSettings and showUpload are never both true, so exactly one of
\* the three Slides of App (chat surface, settings panel, upload panel) has
\* its `in` prop true.
C29_PanelsExclusive ==
  /\ ~(showSettings /\ showUpload)
  /\ Cardinality({p \in {"chat", "settings", "upload"} :
                    \/ p = "chat" /\ ~showSettings /\ ~showUpload
                    \/ p = "settings" /\ showSettings
                    \/ p = "upload" /\ showUpload}) = 1

\* the upload panel is shown after a panel had been opened and closed before
C29_Witness ==
  /\ showUpload /\ ~showSettings
  /\ ~mounted
  /\ inst >= 2

====
